---- MODULE Spec2Model ----
(***************************************************************************)
(* Real-Time-Config (RTC) callout dispatcher of amp-a4a:                   *)
(*   extensions/amp-a4a/0.1/real-time-config-manager.js                    *)
(*                                                                         *)
(* A string that the code takes apart (a URL, a URL template) is a         *)
(* sequence of tokens: <<scheme, host, t1, t2, ...>>; a token that is the  *)
(* name of a macro is a placeholder.  A vendor name used as a callout      *)
(* label is the one-token string <<name>>.                                 *)
(*                                                                         *)
(* The click-exit element of an ad creative:                               *)
(*   extensions/amp-ad-exit/0.1/amp-ad-exit.js                             *)
(***************************************************************************)
EXTENDS Integers, Sequences, FiniteSets, TLC

VARIABLES
  element,         \* the rtc-config attribute of the amp-ad element
  warnings,        \* the messages handed to user().warn
  rtcConfig,       \* what validateRtcConfig_ returned, as the builder reads it:
                   \* [urls, vendors, timeoutMillis], or Null
  customMacros,    \* the ad-network macros handed to maybeExecuteRealTimeConfig_
  pc,              \* "start" | "returned" (with no promise) | "pending" |
                   \* "resolved" | "rejected" (the returned promise)
  promiseArray,    \* one promise per candidate, in push order
  seenUrls,        \* the keys of seenUrls
  fetchJsonCalls,  \* the URLs fetchJson was called with, in call order
  rtcStartTime,    \* Date.now() at the start of the execution
  now,             \* the clock, in milliseconds
  result,          \* the list the returned promise resolved to
  ampAdExit,       \* the fields of the AmpAdExit instance
  invocation       \* the last call of one of its handlers: what it was
                   \* given and what it did

\* the variables of an RTC execution, and those of the amp-ad-exit element
rtcVars == <<element, warnings, rtcConfig, customMacros, pc, promiseArray,
             seenUrls, fetchJsonCalls, rtcStartTime, now, result>>
exitVars == <<ampAdExit, invocation>>

vars == <<element, warnings, rtcConfig, customMacros, pc, promiseArray,
          seenUrls, fetchJsonCalls, rtcStartTime, now, result,
          ampAdExit, invocation>>

-----------------------------------------------------------------------------
(* Bounds of the model *)

\* most candidates (urls and vendor entries) of a config of the builder specification
MaxCandidates == 6
\* most candidates of a config of the dispatch specification
MaxAsyncCandidates == 2
\* most urls, and most vendor entries, of a config of the validator specification
MaxShapeLen == 1
\* largest timeoutMillis of a config of the dispatch specification
MaxTimeout == 1
\* most tracking urls of an exit target
MaxTrackingUrls == 2
\* most urls of a config of the specification of unanswered requests
MaxSeenUrls == 7

\* the clock runs until one millisecond past the longest timeout
MaxNow == MaxTimeout + 1

-----------------------------------------------------------------------------
(* Program constants *)

MAX_RTC_CALLOUTS == 5

\* const defaultTimeoutMillis = 1000
defaultTimeoutMillis == 1000

RTC_ERROR_ENUM ==
  [MALFORMED_JSON_RESPONSE |-> "malformed_json_response",
   DUPLICATE_URL           |-> "duplicate_url",
   INSECURE_URL            |-> "insecure_url",
   MAX_CALLOUTS_EXCEEDED   |-> "max_callouts_exceeded",
   NETWORK_FAILURE         |-> "network_failure",
   UNKNOWN_VENDOR          |-> "unknown_vendor"]

\* 'fakevendor': 'https://www.fake.qqq/?slot_id=SLOT_ID&page_id=PAGE_ID&foo_id=FOO_ID'
RTC_VENDORS ==
  [fakevendor |-> <<"https", "www.fake.qqq", "SLOT_ID", "PAGE_ID", "FOO_ID">>]

\* the value of an absent optional argument
Undefined == <<>>

\* A JavaScript value that the code tests the type of carries its type:
\*   [type |-> "null"]
\*   [type |-> "number", num |-> n]       the integer n
\*   [type |-> "number", num |-> n, half |-> TRUE]   the number n + 0.5, n >= 0
\*   [type |-> "string", str |-> s]
\*   [type |-> "array",  items |-> <<...>>]
\*   [type |-> "object", props |-> f]     the config: f maps its own keys
\*   [type |-> "object", entries |-> e]   a vendors mapping: its entries
\*                                        [name, macros] in key order
Null == [type |-> "null"]

-----------------------------------------------------------------------------
(* Library functions the code calls *)

\* String.prototype.toLowerCase on the vendor names of the model
ToLowerCase(name) ==
  CASE name = "FakeVendor"    -> "fakevendor"
    [] name = "UnknownVendor" -> "unknownvendor"
    [] OTHER                  -> name

\* Object.assign with the keys of the target winning
ObjectAssignTargetWins(target, source) ==
  [k \in (DOMAIN target) \cup (DOMAIN source) |->
     IF k \in DOMAIN target THEN target[k] ELSE source[k]]
\* Object.assign(target, source): source's keys win
ObjectAssign(target, source) ==
  [k \in (DOMAIN target) \cup (DOMAIN source) |->
     IF k \in DOMAIN source THEN source[k] ELSE target[k]]

\* urlReplacements.expandSync(url, bindings, undefined, whitelist): a placeholder
\* is replaced by its binding when the whitelist allows it, and kept otherwise
ExpandSync(url, bindings, whitelist) ==
  [k \in DOMAIN url |->
     IF url[k] \in whitelist /\ url[k] \in DOMAIN bindings
     THEN bindings[url[k]] ELSE url[k]]

\* isSecureUrl(url): https, or a localhost host
IsSecureUrl(url) ==
  \/ url[1] = "https"
  \/ url[2] = "localhost"

\* JSON.parse on the response bodies of the model; ok is FALSE where it throws
JsonParse(text) ==
  CASE text = "{}"   -> [ok |-> TRUE,  value |-> [type |-> "object", keys |-> {}]]
    [] text = "0"    -> [ok |-> TRUE,  value |-> [type |-> "number", num |-> 0]]
    [] text = "null" -> [ok |-> TRUE,  value |-> [type |-> "null"]]
    [] OTHER         -> [ok |-> FALSE, value |-> Undefined]

\* tryParseJson(text): the parsed value, or undefined when JSON.parse throws
TryParseJson(text) ==
  IF JsonParse(text).ok THEN JsonParse(text).value ELSE Undefined

\* whether a value counts as true in a condition
Truthy(v) ==
  /\ v # Undefined
  /\ v.type # "null"
  /\ v.type = "number" => (v.num # 0 \/ "half" \in DOMAIN v)
  /\ v.type = "string" => v.str # ""

\* isObject(value), isArray(value)
IsObject(v) == v # Undefined /\ v.type = "object"
IsArray(v) == v # Undefined /\ v.type = "array"

\* Object.keys(value) of a parsed config: a number has no own keys
ObjectKeys(v) == IF v.type = "object" THEN DOMAIN v.props ELSE {}

\* value[key] of a parsed config: undefined where value has no such key
Get(v, key) == IF key \in ObjectKeys(v) THEN v.props[key] ELSE Undefined

NaN == [nan |-> TRUE, num |-> 0]

\* parseInt(value, 10) on the timeoutMillis values of the model: the leading
\* integer of String(value) (of "1.5" it is 1), or NaN where there is none
ParseInt(v) ==
  CASE v = Undefined     -> NaN
    [] v.type = "number" -> [nan |-> FALSE, num |-> v.num]
    [] v.type = "string" ->
         CASE v.str = "12"   -> [nan |-> FALSE, num |-> 12]
           [] v.str = "12px" -> [nan |-> FALSE, num |-> 12]
           [] v.str = "-3"   -> [nan |-> FALSE, num |-> -3]
           [] OTHER          -> NaN
    [] OTHER             -> NaN

\* tryParseJson(element.getAttribute('rtc-config')): the attribute is absent
\* (getAttribute gives null, which JSON.parse reads as the text "null"), or
\* the JSON text of a value, complete or cut short (JSON.parse throws)
TryParseJsonAttribute(attr) ==
  IF ~attr.present THEN Null
  ELSE IF attr.complete THEN attr.value
  ELSE Undefined

-----------------------------------------------------------------------------
(* Promises *)

\* Promise.resolve(value)
PromiseResolve(value) ==
  [state |-> "fulfilled", value |-> value, url |-> Undefined, callout |-> Undefined,
   fetch |-> "none", text |-> "none", body |-> "none", timer |-> "none",
   deadline |-> 0]

\* buildErrorResponse_ that leaves rtcTime out
buildErrorResponse_NoTime(error, callout, opt_rtcTime) ==
  PromiseResolve([error |-> error, callout |-> callout])
\* function buildErrorResponse_(error, callout, opt_rtcTime); opt_rtcTime is 0
\* when absent, which `opt_rtcTime || 0` maps to 0 as well
buildErrorResponse_(error, callout, opt_rtcTime) ==
  PromiseResolve([error |-> error, callout |-> callout, rtcTime |-> opt_rtcTime])

\* logAndAddErrorResponse_ that stamps the record with a millisecond of rtcTime
logAndAddErrorResponse_Stamped(pa, error, callout) ==
  Append(pa, buildErrorResponse_(error, callout, 1))
\* logAndAddErrorResponse_ that logs and adds nothing
logAndAddErrorResponse_Dropped(pa, error, callout) == pa
\* function logAndAddErrorResponse_(promiseArray, error, callout)
logAndAddErrorResponse_(pa, error, callout) ==
  Append(pa, buildErrorResponse_(error, callout, 0))

-----------------------------------------------------------------------------
(* The builder: the synchronous pass of maybeExecuteRealTimeConfig_ *)

\* RTC_VENDORS[name]: the template, or undefined
RegistryLookup(name) ==
  IF name \in DOMAIN RTC_VENDORS THEN RTC_VENDORS[name] ELSE Undefined

\* function sendRtcCallout_(url, rtcStartTime, win, timeoutMillis, callout),
\* called at time t: fetchJson(url) is in flight, the timer of timeoutPromise is
\* armed, and the promise it returns is pending.  body is the text the record
\* of the callout was made from, once that has happened.
sendRtcCallout_(url, timeoutMillis, callout, t) ==
  [state |-> "pending", value |-> Undefined, url |-> url, callout |-> callout,
   fetch |-> "pending", text |-> "none", body |-> "none", timer |-> "armed",
   deadline |-> t + timeoutMillis]

\* line 119: Object.keys(seenUrls).length == MAX_RTC_CALLOUTS
CapReachedOffByOne(seen) == Cardinality(seen) > MAX_RTC_CALLOUTS
CapReached(seen) == Cardinality(seen) = MAX_RTC_CALLOUTS

\* line 131: !isSecureUrl(url), on the expanded url
FailsSecureCheckNever(url) == FALSE
FailsSecureCheck(url) == ~IsSecureUrl(url)

\* line 139: seenUrls[url] = true
MarkSeenForgotten(seen, url) == seen
MarkSeen(seen, url) == seen \cup {url}

\* function inflateAndSendRtc_ with every url that was looked at marked as seen
inflateAndSendRtc_MarksRejected(st, url, macros, timeoutMillis, opt_vendor, t) ==
  LET expanded == ExpandSync(url, macros, DOMAIN macros)
      OrUrl(u) == IF opt_vendor # Undefined THEN opt_vendor ELSE u
  IN  IF CapReached(st.seenUrls)
      THEN [st EXCEPT !.promiseArray = logAndAddErrorResponse_(
                @, RTC_ERROR_ENUM.MAX_CALLOUTS_EXCEEDED, OrUrl(url))]
      ELSE IF FailsSecureCheck(expanded)
      THEN [st EXCEPT !.seenUrls = MarkSeen(@, expanded),
                      !.promiseArray = logAndAddErrorResponse_(
                @, RTC_ERROR_ENUM.INSECURE_URL, OrUrl(expanded))]
      ELSE IF expanded \in st.seenUrls
      THEN [st EXCEPT !.promiseArray = logAndAddErrorResponse_(
                @, RTC_ERROR_ENUM.DUPLICATE_URL, OrUrl(expanded))]
      ELSE [seenUrls       |-> MarkSeen(st.seenUrls, expanded),
            promiseArray   |-> Append(st.promiseArray,
                                 sendRtcCallout_(expanded, timeoutMillis,
                                                 OrUrl(expanded), t)),
            fetchJsonCalls |-> Append(st.fetchJsonCalls, expanded)]

\* function inflateAndSendRtc_ with the secure and duplicate checks ahead of the cap
inflateAndSendRtc_CapLast(st, url, macros, timeoutMillis, opt_vendor, t) ==
  LET expanded == ExpandSync(url, macros, DOMAIN macros)
      OrUrl(u) == IF opt_vendor # Undefined THEN opt_vendor ELSE u
  IN  IF FailsSecureCheck(expanded)
      THEN [st EXCEPT !.promiseArray = logAndAddErrorResponse_(
                @, RTC_ERROR_ENUM.INSECURE_URL, OrUrl(expanded))]
      ELSE IF expanded \in st.seenUrls
      THEN [st EXCEPT !.promiseArray = logAndAddErrorResponse_(
                @, RTC_ERROR_ENUM.DUPLICATE_URL, OrUrl(expanded))]
      ELSE IF CapReached(st.seenUrls)
      THEN [st EXCEPT !.promiseArray = logAndAddErrorResponse_(
                @, RTC_ERROR_ENUM.MAX_CALLOUTS_EXCEEDED, OrUrl(url))]
      ELSE [seenUrls       |-> MarkSeen(st.seenUrls, expanded),
            promiseArray   |-> Append(st.promiseArray,
                                 sendRtcCallout_(expanded, timeoutMillis,
                                                 OrUrl(expanded), t)),
            fetchJsonCalls |-> Append(st.fetchJsonCalls, expanded)]

\* function inflateAndSendRtc_(a4aElement, url, seenUrls, promiseArray,
\*     rtcStartTime, macros, timeoutMillis, opt_vendor), called at time t.
\* st holds what the call may change: seenUrls, promiseArray and the calls of
\* fetchJson.  With no macros (undefined, or {}) nothing is on the whitelist and
\* expandSync, when called, leaves the url as it is.
inflateAndSendRtc_(st, url, macros, timeoutMillis, opt_vendor, t) ==
  LET expanded == ExpandSync(url, macros, DOMAIN macros)
      OrUrl(u) == IF opt_vendor # Undefined THEN opt_vendor ELSE u
  IN  IF CapReached(st.seenUrls)
      THEN [st EXCEPT !.promiseArray = logAndAddErrorResponse_(
                @, RTC_ERROR_ENUM.MAX_CALLOUTS_EXCEEDED, OrUrl(url))]
      ELSE IF FailsSecureCheck(expanded)
      THEN [st EXCEPT !.promiseArray = logAndAddErrorResponse_(
                @, RTC_ERROR_ENUM.INSECURE_URL, OrUrl(expanded))]
      ELSE IF expanded \in st.seenUrls
      THEN [st EXCEPT !.promiseArray = logAndAddErrorResponse_(
                @, RTC_ERROR_ENUM.DUPLICATE_URL, OrUrl(expanded))]
      ELSE [seenUrls       |-> MarkSeen(st.seenUrls, expanded),
            promiseArray   |-> Append(st.promiseArray,
                                 sendRtcCallout_(expanded, timeoutMillis,
                                                 OrUrl(expanded), t)),
            fetchJsonCalls |-> Append(st.fetchJsonCalls, expanded)]

\* the vendors callback with the registry read under the name as written
VendorCallbackCaseSensitive(st, entry, custom, timeoutMillis, t) ==
  LET url == RegistryLookup(entry.name)
  IN  IF url = Undefined
      THEN [st EXCEPT !.promiseArray = logAndAddErrorResponse_(
                @, RTC_ERROR_ENUM.UNKNOWN_VENDOR, <<entry.name>>)]
      ELSE inflateAndSendRtc_(st, url, ObjectAssign(entry.macros, custom),
                              timeoutMillis, <<ToLowerCase(entry.name)>>, t)

\* the vendors callback with the cap checked ahead of the registry
VendorCallbackCapFirst(st, entry, custom, timeoutMillis, t) ==
  LET url == RegistryLookup(ToLowerCase(entry.name))
  IN  IF CapReached(st.seenUrls)
      THEN [st EXCEPT !.promiseArray = logAndAddErrorResponse_(
                @, RTC_ERROR_ENUM.MAX_CALLOUTS_EXCEEDED, <<ToLowerCase(entry.name)>>)]
      ELSE IF url = Undefined
      THEN [st EXCEPT !.promiseArray = logAndAddErrorResponse_(
                @, RTC_ERROR_ENUM.UNKNOWN_VENDOR, <<entry.name>>)]
      ELSE inflateAndSendRtc_(st, url, ObjectAssign(entry.macros, custom),
                              timeoutMillis, <<ToLowerCase(entry.name)>>, t)

\* the callback of Object.keys(rtcConfig['vendors']).forEach, for one entry
\* [name, macros] of the vendors mapping
VendorCallback(st, entry, custom, timeoutMillis, t) ==
  LET url == RegistryLookup(ToLowerCase(entry.name))
  IN  IF url = Undefined
      THEN [st EXCEPT !.promiseArray = logAndAddErrorResponse_(
                @, RTC_ERROR_ENUM.UNKNOWN_VENDOR, <<entry.name>>)]
      ELSE inflateAndSendRtc_(st, url, ObjectAssign(entry.macros, custom),
                              timeoutMillis, <<ToLowerCase(entry.name)>>, t)

RECURSIVE ForEachUrl(_, _, _, _, _)
\* (rtcConfig['urls'] || []).forEach(url => inflateAndSendRtc_(...))
ForEachUrl(st, urls, custom, timeoutMillis, t) ==
  IF urls = <<>> THEN st
  ELSE ForEachUrl(inflateAndSendRtc_(st, Head(urls), custom, timeoutMillis,
                                     Undefined, t),
                  Tail(urls), custom, timeoutMillis, t)

\* the vendors loop left for later: no entry is looked at in the pass
ForEachVendorDeferred(st, vendors, custom, timeoutMillis, t) == st

RECURSIVE ForEachVendor(_, _, _, _, _)
\* Object.keys(rtcConfig['vendors'] || []).forEach(vendor => ...)
ForEachVendor(st, vendors, custom, timeoutMillis, t) ==
  IF vendors = <<>> THEN st
  ELSE ForEachVendor(VendorCallback(st, Head(vendors), custom, timeoutMillis, t),
                     Tail(vendors), custom, timeoutMillis, t)

\* the body of maybeExecuteRealTimeConfig_ from the line of promiseArray to the
\* end of the vendors loop, run at time t on a validated config
BuilderPass(config, custom, t) ==
  LET st0 == [seenUrls |-> {}, promiseArray |-> <<>>, fetchJsonCalls |-> <<>>]
      st1 == ForEachUrl(st0, config.urls, custom, config.timeoutMillis, t)
  IN  ForEachVendor(st1, config.vendors, custom, config.timeoutMillis, t)

-----------------------------------------------------------------------------
(* The validator *)

\* lines 204-213: a warning for each key of the config that is not whitelisted
UnknownKeyWarnings(config) ==
  { "Unknown RTC Config key: " \o key :
      key \in ObjectKeys(config) \ {"urls", "vendors", "timeoutMillis"} }

\* rtcConfig['vendors'] || {} and rtcConfig['urls'] || [], and their lengths
VendorsOrEmpty(config) ==
  IF Truthy(Get(config, "vendors")) THEN Get(config, "vendors")
  ELSE [type |-> "object", entries |-> <<>>]

UrlsOrEmpty(config) ==
  IF Truthy(Get(config, "urls")) THEN Get(config, "urls")
  ELSE [type |-> "array", items |-> <<>>]

\* lines 214-226 without the last assertion
ShapeAssertsButEmpty(config) ==
  /\ Truthy(Get(config, "vendors")) \/ Truthy(Get(config, "urls"))
  /\ ~Truthy(Get(config, "vendors")) \/ IsObject(Get(config, "vendors"))
  /\ ~Truthy(Get(config, "urls")) \/ IsArray(Get(config, "urls"))
\* lines 214-226: the four user().assert in their order; FALSE where one throws
ShapeAsserts(config) ==
  /\ Truthy(Get(config, "vendors")) \/ Truthy(Get(config, "urls"))
  /\ ~Truthy(Get(config, "vendors")) \/ IsObject(Get(config, "vendors"))
  /\ ~Truthy(Get(config, "urls")) \/ IsArray(Get(config, "urls"))
  /\ \/ Len(VendorsOrEmpty(config).entries) # 0
     \/ Len(UrlsOrEmpty(config).items) # 0

\* line 229 without the test for a negative timeout
TimeoutRejectedAboveOnly(timeout) == timeout >= defaultTimeoutMillis
\* line 229: timeout >= defaultTimeoutMillis || timeout < 0
TimeoutRejected(timeout) == timeout >= defaultTimeoutMillis \/ timeout < 0

\* lines 227-238: the timeout the config gets and the warning emitted.  Line
\* 230 sets timeout to undefined before line 231 formats it into the message.
ResolveTimeout(value) ==
  LET timeout == ParseInt(value)
  IN  IF ~timeout.nan
      THEN IF TimeoutRejected(timeout.num)
           THEN [timeoutMillis |-> defaultTimeoutMillis,
                 warnings |-> {"Invalid RTC timeout: undefinedms, " \o
                               "using default timeout 1000ms"}]
           ELSE [timeoutMillis |-> IF timeout.num # 0 THEN timeout.num
                                   ELSE defaultTimeoutMillis,
                 warnings |-> {}]
      ELSE [timeoutMillis |-> defaultTimeoutMillis,
            warnings |-> {"Invalid RTC timeout is NaN, " \o
                          "using default timeout 1000ms"}]

\* a fresh config of the whitelisted keys in place of the parsed one
SetTimeoutMillisInCopy(config, timeoutMillis) ==
  [config EXCEPT !.props =
     [k \in (DOMAIN config.props \cap {"urls", "vendors"}) \cup {"timeoutMillis"} |->
        IF k = "timeoutMillis" THEN [type |-> "number", num |-> timeoutMillis]
        ELSE config.props[k]]]
\* rtcConfig['timeoutMillis'] = ...: the config with the key set
SetTimeoutMillis(config, timeoutMillis) ==
  [config EXCEPT !.props =
     [k \in DOMAIN config.props \cup {"timeoutMillis"} |->
        IF k = "timeoutMillis" THEN [type |-> "number", num |-> timeoutMillis]
        ELSE config.props[k]]]

\* function validateRtcConfig_(element): what it returns (the config, or
\* Null) and the warnings it emits
validateRtcConfig_(attr) ==
  LET config == TryParseJsonAttribute(attr)
  IN  IF ~Truthy(config)
      THEN [value |-> Null, warnings |-> {}]
      ELSE IF ~ShapeAsserts(config)
      THEN [value |-> Null, warnings |-> UnknownKeyWarnings(config)]
      ELSE LET t == ResolveTimeout(Get(config, "timeoutMillis"))
           IN  [value |-> SetTimeoutMillis(config, t.timeoutMillis),
                warnings |-> UnknownKeyWarnings(config) \cup t.warnings]

\* the config as maybeExecuteRealTimeConfig_ reads it: rtcConfig['urls'] || [],
\* the entries of rtcConfig['vendors'] || [], rtcConfig['timeoutMillis']
ConfigView(config) ==
  [urls          |-> UrlsOrEmpty(config).items,
   vendors       |-> VendorsOrEmpty(config).entries,
   timeoutMillis |-> IF Get(config, "timeoutMillis") = Undefined THEN 0
                     ELSE Get(config, "timeoutMillis").num]

\* line 72 with the test left out
NotRtcConfigNever(v) == FALSE
\* line 72: !rtcConfig
NotRtcConfig(v) == ~Truthy(v)

\* maybeExecuteRealTimeConfig_(a4aElement, customMacros): the synchronous pass,
\* which ends within the millisecond it starts in, and the return of
\* Promise.all(promiseArray)
maybeExecuteRealTimeConfig_ ==
  /\ pc = "start"
  /\ \E validated \in { validateRtcConfig_(element) } :
       /\ warnings' = validated.warnings
       /\ IF NotRtcConfig(validated.value)
          THEN /\ rtcConfig' = Null
               /\ pc' = "returned"
               /\ UNCHANGED <<seenUrls, promiseArray, fetchJsonCalls,
                              rtcStartTime>>
          ELSE \E config \in { ConfigView(validated.value) } :
               \E st \in { BuilderPass(config, customMacros, now) } :
                 /\ rtcConfig' = config
                 /\ seenUrls' = st.seenUrls
                 /\ promiseArray' = st.promiseArray
                 /\ fetchJsonCalls' = st.fetchJsonCalls
                 /\ rtcStartTime' = now
                 /\ pc' = "pending"
  /\ UNCHANGED <<element, customMacros, now, result>>
  /\ UNCHANGED exitVars

-----------------------------------------------------------------------------
(* amp-ad-exit: the element, its config and its handlers *)

\* constructor(element): the fields of a new AmpAdExit.  unlisten_ is "null"
\* until buildCallback has registered the message listener.
AmpAdExit ==
  [targets_         |-> <<>>,
   defaultFilters_  |-> <<>>,
   transport_       |-> [beacon |-> TRUE, image |-> TRUE],
   userFilters_     |-> {},
   vendorResponses_ |-> <<>>,
   unlisten_        |-> "null"]

\* MessageType.IFRAME_TRANSPORT_RESPONSE
IFRAME_TRANSPORT_RESPONSE == "iframe-transport-response"

\* the resource id of the amp-ad that holds the creative
AmpAdResourceId == "12"

\* f restricted to the keys in S
Restrict(f, S) == [k \in S |-> f[k]]

\* object has the key; the values the objects of this part hold are
\* non-empty strings and objects, so object[key] is truthy exactly then
Has(object, key) == key \in DOMAIN object

\* object[key], undefined where the object has no such key
Prop(object, key) == IF Has(object, key) THEN object[key] ELSE Undefined

\* object[key] = value
SetProp(object, key, value) ==
  [k \in DOMAIN object \cup {key} |-> IF k = key THEN value ELSE object[k]]

\* a tracking url and the final url of a target, with their placeholders
TrackingUrl(k) == <<"https", "track." \o ToString(k), "CLICK_X", "_pty">>
FinalUrl == <<"https", "landing.example", "CLICK_Y", "_pty">>

\* "vars": {"_pty": {"defaultValue": "unknown",
\*                   "iframeTransportSignal": "IFRAME_TRANSPORT_SIGNAL(vendorXYZ,priority)"}}
TargetVars ==
  [_pty |-> [defaultValue |-> "unknown",
             iframeTransportSignal |-> [vendor |-> "vendorXYZ",
                                        responseKey |-> "priority"]]]

\* the targets a config may declare under the name landing: finalUrl, and
\* trackingUrls, vars and filters each given or left out
TargetConfigs ==
  { Restrict([finalUrl |-> FinalUrl, trackingUrls |-> urls, vars |-> TargetVars,
              filters |-> filters],
             {"finalUrl"} \cup given) :
      urls \in { [k \in 1..n |-> TrackingUrl(k)] : n \in 0..MaxTrackingUrls },
      filters \in { <<"f1">>, <<"undeclared">> },
      given \in SUBSET {"trackingUrls", "vars", "filters"} }

\* config.transport after assertConfig: beacon and image each true, false or
\* left out
TransportConfigs ==
  { Restrict([beacon |-> b, image |-> i], given) :
      b \in BOOLEAN, i \in BOOLEAN, given \in SUBSET {"beacon", "image"} }

\* the configs assertConfig lets through: filters is the set of the names
\* config.filters declares
ExitConfigs ==
  [filters : { {}, {"f1"} },
   targets : { [landing |-> target] : target \in TargetConfigs },
   transport : TransportConfigs]

\* lines 239-249: the NavigationTarget built from a target of the config
BuildTarget(target, userFilters) ==
  [finalUrl     |-> target.finalUrl,
   trackingUrls |-> IF "trackingUrls" \in DOMAIN target
                    THEN target.trackingUrls ELSE <<>>,
   vars         |-> IF "vars" \in DOMAIN target THEN target.vars ELSE <<>>,
   filters      |-> SelectSeq(IF "filters" \in DOMAIN target
                              THEN target.filters ELSE <<>>,
                              LAMBDA f : f \in userFilters)]

\* lines 250-251: config.transport[mode] !== false
TransportEnabled(transport, mode) ==
  ~(mode \in DOMAIN transport /\ transport[mode] = FALSE)

\* buildCallback(): the minDelay filter is pushed first; then the element
\* has no single json script child ("noScript"), or its text is no valid
\* config ("invalid"), or it holds a config; getAmpAdResourceId throws when
\* the element has no friendly amp-ad parent
buildCallback ==
  /\ ampAdExit.defaultFilters_ = <<>>
  /\ \E input \in { [kind |-> "noScript"], [kind |-> "invalid"] } \cup
                  [kind : {"config"}, config : ExitConfigs, friendly : BOOLEAN] :
       /\ invocation' = [op |-> "buildCallback", input |-> input,
                         threw |-> (input.kind # "config" \/ ~input.friendly)]
       /\ IF input.kind # "config"
          THEN ampAdExit' = [ampAdExit EXCEPT !.defaultFilters_ = <<"minDelay">>]
          ELSE ampAdExit' =
                 [ampAdExit EXCEPT
                    !.defaultFilters_ = <<"minDelay">>,
                    !.userFilters_ = input.config.filters,
                    !.targets_ =
                       [name \in DOMAIN input.config.targets |->
                          BuildTarget(input.config.targets[name],
                                      input.config.filters)],
                    !.transport_ =
                       [beacon |-> TransportEnabled(input.config.transport, "beacon"),
                        image  |-> TransportEnabled(input.config.transport, "image")],
                    !.unlisten_ = IF input.friendly THEN "listening" ELSE "null"]
  /\ UNCHANGED rtcVars

\* the element is built: buildCallback returned
Built == ampAdExit.unlisten_ # "null"

\* detachedCallback(): the listener is removed
detachedCallback ==
  /\ ampAdExit.unlisten_ = "listening"
  /\ ampAdExit' = [ampAdExit EXCEPT !.unlisten_ = "unlistened"]
  /\ invocation' = [op |-> "detachedCallback"]
  /\ UNCHANGED rtcVars

\* assertOriginMatchesVendor(origin, vendor): the origin is the one the
\* vendor's transport frame is served from
VendorOrigin(vendor) ==
  IF vendor = "vendorXYZ" THEN "https://vendorxyz.example" ELSE "none"

OriginMatchesVendor(origin, vendor) == origin = VendorOrigin(vendor)

\* assertValidResponseMessage(responseMessage, expectedCreativeId,
\* expectedVendor): "returned" at the early return of line 284, "threw" when
\* an assertion fails, "passed" at its end
assertValidResponseMessage(responseMessage, expectedCreativeId, expectedVendor) ==
  IF \/ responseMessage = Null
     \/ ~Has(responseMessage, "type")
     \/ responseMessage.type # IFRAME_TRANSPORT_RESPONSE
     \/ ~Has(responseMessage, "creativeId")
     \/ responseMessage.creativeId # expectedCreativeId
  THEN "returned"
  ELSE IF ~Has(responseMessage, "message") THEN "threw"
  ELSE IF ~Has(responseMessage, "vendor") THEN "threw"
  ELSE IF OriginMatchesVendor(expectedVendor, responseMessage.vendor)
  THEN "passed" ELSE "threw"

\* the response a vendor frame may send
VendorMessages == { [priority |-> "medium"] }

\* what the window may receive: data that is no AMP message, or the JSON of
\* an object with each of type, creativeId, vendor and message there or not
MessageObjects ==
  { Restrict([type |-> t, creativeId |-> c, vendor |-> "vendorXYZ", message |-> m],
             given) :
      t \in {IFRAME_TRANSPORT_RESPONSE, "send-embed-state"},
      c \in {AmpAdResourceId, "13"},
      m \in VendorMessages,
      given \in SUBSET {"type", "creativeId", "vendor", "message"} }

MessageEvents ==
  [origin : {"https://vendorxyz.example", "https://other.example"},
   amp : {FALSE}, json : {<<>>}] \cup
  [origin : {"https://vendorxyz.example", "https://other.example"},
   amp : {TRUE}, json : MessageObjects]

\* deserializeMessage(getData(event)): null for what is no AMP message
DeserializeMessage(event) == IF event.amp THEN event.json ELSE Null

\* the property name responseMessage['vendor'] is turned into at line 265
VendorKey(responseMessage) ==
  IF Has(responseMessage, "vendor") THEN responseMessage.vendor ELSE "undefined"

\* lines 259-267: the listener of the window's message event.  Reading
\* responseMessage['vendor'] of null at line 265 throws.
OnMessage ==
  /\ ampAdExit.unlisten_ = "listening"
  /\ \E event \in MessageEvents :
       \E responseMessage \in { DeserializeMessage(event) } :
       \E valid \in { assertValidResponseMessage(responseMessage, AmpAdResourceId,
                                                 event.origin) } :
         IF valid = "threw" \/ responseMessage = Null
         THEN /\ invocation' = [op |-> "message", event |-> event, threw |-> TRUE]
              /\ UNCHANGED ampAdExit
         ELSE /\ invocation' = [op |-> "message", event |-> event, threw |-> FALSE]
              /\ ampAdExit' =
                   [ampAdExit EXCEPT
                      !.vendorResponses_ =
                         SetProp(@, VendorKey(responseMessage),
                                 Prop(responseMessage, "message"))]
  /\ UNCHANGED rtcVars

\* filter_ that lets the event through when one filter does
filter_Some(filters, event) ==
  \E k \in DOMAIN filters : filters[k] \in event.passes
\* filter_(filters, event): filters.every(filter => filter.filter(event)); the
\* event says which filters it passes
filter_(filters, event) ==
  \A k \in DOMAIN filters : filters[k] \in event.passes

\* lines 149-171: the value of the custom variable name
CustomVarValue(name, customVar, args, vendorResponses) ==
  LET signal == customVar.iframeTransportSignal
      responses == Prop(vendorResponses, signal.vendor)
      vendorResponse == IF Has(responses, signal.responseKey)
                        THEN responses[signal.responseKey] ELSE ""
  IN  IF Has(customVar, "iframeTransportSignal") /\ vendorResponse # ""
      THEN vendorResponse
      ELSE IF name \in DOMAIN args THEN args[name]
      ELSE customVar.defaultValue

\* getUrlVariableRewriter_(args, event, target): the function it returns,
\* applied to url
SubstituteVariables(url, args, event, target, vendorResponses) ==
  LET custom == DOMAIN target.vars
      bindings == [name \in {"CLICK_X", "CLICK_Y"} \cup custom |->
                     CASE name = "CLICK_X" -> event.clientX
                       [] name = "CLICK_Y" -> event.clientY
                       [] OTHER -> CustomVarValue(name, target.vars[name], args,
                                                  vendorResponses)]
  IN  ExpandSync(url, bindings, {"RANDOM", "CLICK_X", "CLICK_Y"} \cup custom)

\* pingTrackingUrl_ that falls back to the image whatever transport_.image says
pingTrackingUrl_AlwaysImage(transport, navigator, url) ==
  IF transport.beacon /\ navigator # "absent" /\ navigator = "accepts"
  THEN [kind |-> "ping", url |-> url, sendBeacon |-> "accepted", img |-> FALSE]
  ELSE [kind |-> "ping", url |-> url,
        sendBeacon |-> IF transport.beacon /\ navigator # "absent"
                       THEN "refused" ELSE "untried",
        img |-> TRUE]
\* pingTrackingUrl_(url) under transport_ and a navigator whose sendBeacon is
\* absent, accepts or refuses: whether sendBeacon was called and what it
\* said, and whether an img was given the url
pingTrackingUrl_(transport, navigator, url) ==
  IF transport.beacon /\ navigator # "absent" /\ navigator = "accepts"
  THEN [kind |-> "ping", url |-> url, sendBeacon |-> "accepted", img |-> FALSE]
  ELSE [kind |-> "ping", url |-> url,
        sendBeacon |-> IF transport.beacon /\ navigator # "absent"
                       THEN "refused" ELSE "untried",
        img |-> transport.image]

\* the click events: the filters the click passes
ClickEvents ==
  [passes : SUBSET {"minDelay", "f1"}, clientX : {"10"}, clientY : {"20"}]

ExitArgs ==
  { [target |-> "landing"], [target |-> "missing"],
    [target |-> "landing", _pty |-> "high"] }

\* exit({args, event}) on the element self: what it does, in order; nothing
\* when the assertion of line 89 throws
ExitEffects(self, args, event, navigator) ==
  IF args.target \notin DOMAIN self.targets_ THEN <<>>
  ELSE LET target == self.targets_[args.target]
           substitute(url) == SubstituteVariables(url, args, event, target,
                                                  self.vendorResponses_)
       IN  IF ~filter_(self.defaultFilters_, event) \/ ~filter_(target.filters, event)
           THEN << [kind |-> "preventDefault"] >>
           ELSE << [kind |-> "preventDefault"] >> \o
                [k \in DOMAIN target.trackingUrls |->
                   pingTrackingUrl_(self.transport_, navigator,
                                    substitute(target.trackingUrls[k]))] \o
                << [kind |-> "open", url |-> substitute(target.finalUrl)] >>

\* the action exit of the element, invoked on a built element
exit ==
  /\ Built
  /\ \E args \in ExitArgs, event \in ClickEvents,
        navigator \in {"absent", "accepts", "refuses"} :
       invocation' = [op |-> "exit", args |-> args, event |-> event,
                      navigator |-> navigator,
                      threw |-> args.target \notin DOMAIN ampAdExit.targets_,
                      effects |-> ExitEffects(ampAdExit, args, event, navigator)]
  /\ UNCHANGED ampAdExit
  /\ UNCHANGED rtcVars

-----------------------------------------------------------------------------
(* The configs of the model *)

\* https://www.${i}.com/
FreshUrl(i) == <<"https", "www." \o ToString(i) \o ".com">>

\* http://www.insecure.biz/
InsecureUrl == <<"http", "www.insecure.biz">>

UrlKinds == {"fresh", "first", "insecure", "template"}

\* the url a publisher lists at position i: a url of its own, the url of
\* position 1 again, an insecure url, or the template of fakevendor
UrlOfKind(kind, i) ==
  CASE kind = "fresh"    -> FreshUrl(i)
    [] kind = "first"    -> FreshUrl(1)
    [] kind = "insecure" -> InsecureUrl
    [] kind = "template" -> RTC_VENDORS.fakevendor

UrlArrays(kinds, len) ==
  { [i \in 1..len |-> UrlOfKind(f[i], i)] : f \in [1..len -> kinds] }

VendorNames == {"fakevendor", "FakeVendor", "UnknownVendor"}

VendorMacroChoices == { <<>>, [SLOT_ID |-> "1", PAGE_ID |-> "2"] }

CustomMacroChoices == { <<>>, [PAGE_ID |-> "3", FOO_ID |-> "4"] }

\* the vendors mapping in its iteration order: no name twice
VendorMappings(macroChoices, len) ==
  { v \in [1..len -> [name : VendorNames, macros : macroChoices]] :
      \A i, j \in 1..len : i # j => v[i].name # v[j].name }

\* the configs validateRtcConfig_ lets through (at least one url or vendor)
\* that have at most maxTotal urls and vendors
ValidConfigs(kinds, macroChoices, maxTotal, timeouts) ==
  UNION { [urls : UrlArrays(kinds, uv[1]),
           vendors : VendorMappings(macroChoices, uv[2]),
           timeoutMillis : timeouts] :
          uv \in { xy \in (0..maxTotal) \X (0..Cardinality(VendorNames)) :
                     xy[1] + xy[2] \in 1..maxTotal } }

\* the rtc-config attribute that holds the JSON text of a config
AttributeOf(config) ==
  [present |-> TRUE, complete |-> TRUE,
   value |-> [type |-> "object",
              props |-> [urls |-> [type |-> "array", items |-> config.urls],
                         vendors |-> [type |-> "object",
                                      entries |-> config.vendors],
                         timeoutMillis |-> [type |-> "number",
                                            num |-> config.timeoutMillis]]]]

InitOn(elements, customs) ==
  /\ element \in elements
  /\ warnings = {}
  /\ rtcConfig = Null
  /\ customMacros \in customs
  /\ pc = "start"
  /\ promiseArray = <<>>
  /\ seenUrls = {}
  /\ fetchJsonCalls = <<>>
  /\ rtcStartTime = 0
  /\ now = 0
  /\ result = <<>>
  /\ ampAdExit = AmpAdExit
  /\ invocation = [op |-> "none"]

InitWith(configs, customs) ==
  InitOn({ AttributeOf(config) : config \in configs }, customs)

\* the builder alone, on configs long enough to reach the cap
InitBuild ==
  InitWith(ValidConfigs(UrlKinds \ {"first"}, VendorMacroChoices,
                        MaxCandidates, {1}),
           CustomMacroChoices)

NextBuild == maybeExecuteRealTimeConfig_

SpecBuild == InitBuild /\ [][NextBuild]_vars

-----------------------------------------------------------------------------
(* The rtc-config attributes of the validator specification *)

\* marks a key the config does not have
Absent == [type |-> "absent"]

JsNumber(n) == [type |-> "number", num |-> n]
\* the number n + 0.5
JsNumberAndHalf(n) == [type |-> "number", num |-> n, half |-> TRUE]
JsString(s) == [type |-> "string", str |-> s]

\* values of urls: no key, null, "", a string, an array of urls
UrlsValues ==
  {Absent, Null, JsString(""), JsString("incorrect")} \cup
  { [type |-> "array", items |-> items] :
      items \in UNION { UrlArrays({"fresh"}, n) : n \in 0..MaxShapeLen } }

\* values of vendors: no key, null, a string, an array, a mapping
VendorsValues ==
  {Absent, Null, JsString("incorrect"),
   [type |-> "array", items |-> <<"fakevendor">>]} \cup
  { [type |-> "object", entries |-> entries] :
      entries \in UNION { VendorMappings({<<>>}, n) : n \in 0..MaxShapeLen } }

\* values of timeoutMillis: no key, null, numbers around 0 and around the
\* default, 0.5 and 1.5, strings with and without a leading integer
TimeoutValues ==
  {Absent, Null, JsNumberAndHalf(0), JsNumberAndHalf(1)} \cup
  { JsNumber(n) : n \in {-1, 0, 1, defaultTimeoutMillis - 1,
                         defaultTimeoutMillis, defaultTimeoutMillis + 1} } \cup
  { JsString(str) : str \in {"abc", "12", "12px", "-3"} }

\* the object {urls: u, vendors: w, timeoutMillis: t, other: o} without the
\* keys marked absent
ConfigObject(u, w, t, o) ==
  LET choice == [urls |-> u, vendors |-> w, timeoutMillis |-> t, other |-> o]
  IN  [type  |-> "object",
       props |-> [k \in { key \in DOMAIN choice : choice[key] # Absent } |->
                    choice[k]]]

\* what the attribute may hold as JSON: null, a number, a config object
ParsedValues ==
  {Null, JsNumber(0), JsNumber(5)} \cup
  { ConfigObject(u, w, t, o) :
      u \in UrlsValues, w \in VendorsValues, t \in TimeoutValues,
      o \in {Absent, JsNumber(1)} }

\* no attribute, or the JSON text of a value, complete or cut short
Attributes ==
  { [present |-> FALSE, complete |-> FALSE, value |-> Null] } \cup
  { [present |-> TRUE, complete |-> c, value |-> v] :
      c \in BOOLEAN, v \in ParsedValues }

InitValidate == InitOn(Attributes, { <<>> })

\* validation and, on the configs it lets through, the builder
SpecValidate == InitValidate /\ [][NextBuild]_vars

-----------------------------------------------------------------------------
(* The dispatcher: what happens to a callout after sendRtcCallout_ returned *)

Callouts == { i \in DOMAIN promiseArray : promiseArray[i].fetch # "none" }

\* the response bodies a server may send
Bodies == {"", "{}", "0", "not json"}

\* lines 167-177 without the test for an empty text
TextCallbackEmptyParsed(text, rtcTime, callout) ==
  LET rtcResponse == TryParseJson(text)
  IN  IF Truthy(rtcResponse)
      THEN PromiseResolve([rtcResponse |-> rtcResponse, rtcTime |-> rtcTime,
                           callout |-> callout])
      ELSE buildErrorResponse_(RTC_ERROR_ENUM.MALFORMED_JSON_RESPONSE,
                               callout, rtcTime)
\* lines 167-177: the callback of res.text(), run at rtcTime after the start;
\* the promise it returns or the value it returns, as a settled promise
TextCallback(text, rtcTime, callout) ==
  IF text = ""
  THEN PromiseResolve([rtcTime |-> rtcTime, callout |-> callout])
  ELSE LET rtcResponse == TryParseJson(text)
       IN  IF Truthy(rtcResponse)
           THEN PromiseResolve([rtcResponse |-> rtcResponse, rtcTime |-> rtcTime,
                                callout |-> callout])
           ELSE buildErrorResponse_(RTC_ERROR_ENUM.MALFORMED_JSON_RESPONSE,
                                    callout, rtcTime)

\* a rejected promise
PromiseReject == [state |-> "rejected", value |-> Undefined]

\* lines 178-181 with the rejection passed on instead of caught
CatchMissing(outcome, callout, rtcTime) == outcome
\* lines 178-181 with the elapsed time left out of the error response
CatchWithoutTime(outcome, callout, rtcTime) ==
  IF outcome.state = "rejected"
  THEN buildErrorResponse_(RTC_ERROR_ENUM.NETWORK_FAILURE, callout, 0)
  ELSE outcome
\* lines 178-181: .catch(unusedError => buildErrorResponse_(NETWORK_FAILURE, ...)),
\* run at rtcTime after the start on the outcome of timeoutPromise
Catch(outcome, callout, rtcTime) ==
  IF outcome.state = "rejected"
  THEN buildErrorResponse_(RTC_ERROR_ENUM.NETWORK_FAILURE, callout, rtcTime)
  ELSE outcome

\* timeoutPromise(timeoutMillis, racePromise) followed by the catch: the first
\* of the timer and racePromise to settle decides the promise p, at time t; a
\* settled racePromise cancels the timer; what settles later is dropped
Race(p, outcome, t) ==
  IF p.state # "pending" THEN p
  ELSE LET out == Catch(outcome, p.callout, t - rtcStartTime)
       IN  [p EXCEPT !.state = out.state, !.value = out.value]

CancelTimer(p) == [p EXCEPT !.timer = IF @ = "armed" THEN "cancelled" ELSE @]

\* Timer.delay: the callback runs when the delay has passed, or later
TimerDue(p, t) == t >= p.deadline

\* fetchJson(url) resolves with a response: its then-callback calls res.text()
FetchResolve(i) ==
  /\ i \in Callouts
  /\ promiseArray[i].fetch = "pending"
  /\ promiseArray' = [promiseArray EXCEPT ![i].fetch = "resolved",
                                          ![i].text = "pending"]
  /\ UNCHANGED <<element, warnings, rtcConfig, customMacros, pc, seenUrls,
                 fetchJsonCalls, rtcStartTime, now, result>>
  /\ UNCHANGED exitVars

\* fetchJson(url) rejects and takes every unanswered request down with it
FetchRejectAll(i) ==
  /\ i \in Callouts
  /\ promiseArray[i].fetch = "pending"
  /\ promiseArray' =
       [j \in DOMAIN promiseArray |->
          IF j \in Callouts /\ promiseArray[j].fetch = "pending"
          THEN CancelTimer(Race([promiseArray[j] EXCEPT !.fetch = "rejected"],
                                PromiseReject, now))
          ELSE promiseArray[j]]
  /\ UNCHANGED <<element, warnings, rtcConfig, customMacros, pc, seenUrls,
                 fetchJsonCalls, rtcStartTime, now, result>>
  /\ UNCHANGED exitVars
\* fetchJson(url) rejects
FetchReject(i) ==
  /\ i \in Callouts
  /\ promiseArray[i].fetch = "pending"
  /\ promiseArray' =
       [promiseArray EXCEPT
          ![i] = CancelTimer(Race([@ EXCEPT !.fetch = "rejected"],
                                  PromiseReject, now))]
  /\ UNCHANGED <<element, warnings, rtcConfig, customMacros, pc, seenUrls,
                 fetchJsonCalls, rtcStartTime, now, result>>
  /\ UNCHANGED exitVars

\* res.text() resolves and its record replaces the one the callout has
TextResolveOverwrites(i) ==
  /\ i \in Callouts
  /\ promiseArray[i].text = "pending"
  /\ \E text \in Bodies :
       promiseArray' =
         [promiseArray EXCEPT
            ![i] = CancelTimer([@ EXCEPT
                                  !.text = "resolved",
                                  !.body = text,
                                  !.state = "fulfilled",
                                  !.value = TextCallback(
                                              text, now - rtcStartTime,
                                              promiseArray[i].callout).value])]
  /\ UNCHANGED <<element, warnings, rtcConfig, customMacros, pc, seenUrls,
                 fetchJsonCalls, rtcStartTime, now, result>>
  /\ UNCHANGED exitVars
\* res.text() resolves with a body
TextResolve(i) ==
  /\ i \in Callouts
  /\ promiseArray[i].text = "pending"
  /\ \E text \in Bodies :
       promiseArray' =
         [promiseArray EXCEPT
            ![i] = CancelTimer(Race([@ EXCEPT
                                       !.text = "resolved",
                                       !.body = IF promiseArray[i].state = "pending"
                                                THEN text ELSE "none"],
                                    TextCallback(text, now - rtcStartTime,
                                                 @.callout),
                                    now))]
  /\ UNCHANGED <<element, warnings, rtcConfig, customMacros, pc, seenUrls,
                 fetchJsonCalls, rtcStartTime, now, result>>
  /\ UNCHANGED exitVars

\* res.text() rejects
TextReject(i) ==
  /\ i \in Callouts
  /\ promiseArray[i].text = "pending"
  /\ promiseArray' =
       [promiseArray EXCEPT
          ![i] = CancelTimer(Race([@ EXCEPT !.text = "rejected"],
                                  PromiseReject, now))]
  /\ UNCHANGED <<element, warnings, rtcConfig, customMacros, pc, seenUrls,
                 fetchJsonCalls, rtcStartTime, now, result>>
  /\ UNCHANGED exitVars

\* the timer fires and the catch callback sends the request again
TimeoutFireRetry(i) ==
  /\ i \in Callouts
  /\ promiseArray[i].timer = "armed"
  /\ TimerDue(promiseArray[i], now)
  /\ promiseArray' =
       [promiseArray EXCEPT
          ![i] = Race([@ EXCEPT !.timer = "fired"], PromiseReject, now)]
  /\ fetchJsonCalls' = Append(fetchJsonCalls, promiseArray[i].url)
  /\ UNCHANGED <<element, warnings, rtcConfig, customMacros, pc, seenUrls,
                 rtcStartTime, now, result>>
  /\ UNCHANGED exitVars
\* the timer of timeoutPromise fires and rejects
TimeoutFire(i) ==
  /\ i \in Callouts
  /\ promiseArray[i].timer = "armed"
  /\ TimerDue(promiseArray[i], now)
  /\ promiseArray' =
       [promiseArray EXCEPT
          ![i] = Race([@ EXCEPT !.timer = "fired"], PromiseReject, now)]
  /\ UNCHANGED <<element, warnings, rtcConfig, customMacros, pc, seenUrls,
                 fetchJsonCalls, rtcStartTime, now, result>>
  /\ UNCHANGED exitVars

\* a millisecond passes
Tick ==
  /\ pc # "start"
  /\ now < MaxNow
  /\ now' = now + 1
  /\ UNCHANGED <<element, warnings, rtcConfig, customMacros, pc, promiseArray,
                 seenUrls, fetchJsonCalls, rtcStartTime, result>>
  /\ UNCHANGED exitVars

\* Promise.all(promiseArray) settles without waiting for every promise
PromiseAllEager(pa) == TRUE
\* Promise.all(promiseArray) can settle: every promise is fulfilled, or one is rejected
PromiseAllReady(pa) ==
  \/ \A i \in DOMAIN pa : pa[i].state = "fulfilled"
  \/ \E i \in DOMAIN pa : pa[i].state = "rejected"

\* the values of the promises in completion-independent reverse order
PromiseAllValuesReversed(pa) == [i \in DOMAIN pa |-> pa[Len(pa) + 1 - i].value]
\* the list Promise.all resolves to: the values in the order of the promises
PromiseAllValues(pa) == [i \in DOMAIN pa |-> pa[i].value]

\* line 100: the promise of Promise.all(promiseArray) settles
PromiseAllSettle ==
  /\ pc = "pending"
  /\ PromiseAllReady(promiseArray)
  /\ IF \E i \in DOMAIN promiseArray : promiseArray[i].state = "rejected"
     THEN pc' = "rejected" /\ result' = <<>>
     ELSE pc' = "resolved" /\ result' = PromiseAllValues(promiseArray)
  /\ UNCHANGED <<element, warnings, rtcConfig, customMacros, promiseArray,
                 seenUrls, fetchJsonCalls, rtcStartTime, now>>
  /\ UNCHANGED exitVars

\* one execution with its network and timer events
Init ==
  InitWith(ValidConfigs(UrlKinds \ {"template"},
                        { [SLOT_ID |-> "1", PAGE_ID |-> "2"] },
                        MaxAsyncCandidates, 1..MaxTimeout),
           { [PAGE_ID |-> "3", FOO_ID |-> "4"] })

Next ==
  \/ maybeExecuteRealTimeConfig_
  \/ \E i \in DOMAIN promiseArray : FetchResolve(i)
  \/ \E i \in DOMAIN promiseArray : FetchReject(i)
  \/ \E i \in DOMAIN promiseArray : TextResolve(i)
  \/ \E i \in DOMAIN promiseArray : TextReject(i)
  \/ \E i \in DOMAIN promiseArray : TimeoutFire(i)
  \/ Tick
  \/ PromiseAllSettle

Spec == Init /\ [][Next]_vars

\* time passes, due timers fire and settled promises run their callbacks
Fairness ==
  /\ WF_vars(maybeExecuteRealTimeConfig_)
  /\ WF_vars(Tick)
  /\ WF_vars(\E i \in DOMAIN promiseArray : TimeoutFire(i))
  /\ WF_vars(PromiseAllSettle)

\* the executions of Init whose timeout is the longest
InitFair ==
  InitWith(ValidConfigs(UrlKinds \ {"template"},
                        { [SLOT_ID |-> "1", PAGE_ID |-> "2"] },
                        MaxAsyncCandidates, {MaxTimeout}),
           { [PAGE_ID |-> "3", FOO_ID |-> "4"] })

FairSpec == InitFair /\ [][Next]_vars /\ Fairness

\* configs long enough to pass the cap with insecure urls on both sides of
\* it, with and without an unknown vendor
InitUnanswered ==
  InitWith({ [urls |-> urls, vendors |-> vendors, timeoutMillis |-> 1] :
               urls \in UNION { UrlArrays({"fresh", "insecure"}, n) :
                                  n \in 1..MaxSeenUrls },
               vendors \in { <<>>, <<[name |-> "UnknownVendor",
                                      macros |-> <<>>]>> } },
           { <<>> })

\* no request is ever answered: each callout ends by its timeout
NextUnanswered ==
  \/ maybeExecuteRealTimeConfig_
  \/ \E i \in DOMAIN promiseArray : TimeoutFire(i)
  \/ Tick
  \/ PromiseAllSettle

SpecUnanswered == InitUnanswered /\ [][NextUnanswered]_vars

\* an amp-ad-exit element from its construction on; no RTC execution
InitExit ==
  InitOn({ [present |-> FALSE, complete |-> FALSE, value |-> Null] }, { <<>> })

NextExit ==
  \/ buildCallback
  \/ detachedCallback
  \/ OnMessage
  \/ exit

SpecExit == InitExit /\ [][NextExit]_vars

-----------------------------------------------------------------------------
(* What the claims speak of, read off the config and the outcome *)

NumUrls == Len(rtcConfig.urls)
NumCands == NumUrls + Len(rtcConfig.vendors)
CandPositions == 1..NumCands

IsUrlCand(i) == i <= NumUrls
VendorAt(i) == rtcConfig.vendors[i - NumUrls]

\* a publisher url, or an entry whose lowercased name is a key of the registry
KnownCand(i) ==
  IsUrlCand(i) \/ ToLowerCase(VendorAt(i).name) \in DOMAIN RTC_VENDORS

\* the url candidate i expands to (i a known candidate)
ExpandedOf(i) ==
  IF IsUrlCand(i)
  THEN ExpandSync(rtcConfig.urls[i], customMacros, DOMAIN customMacros)
  ELSE LET merged == ObjectAssign(VendorAt(i).macros, customMacros)
       IN  ExpandSync(RTC_VENDORS[ToLowerCase(VendorAt(i).name)], merged,
                      DOMAIN merged)

SecureCand(i) == KnownCand(i) /\ IsSecureUrl(ExpandedOf(i))
InsecureCand(i) == KnownCand(i) /\ ~IsSecureUrl(ExpandedOf(i))

\* a secure candidate that no earlier candidate expands to the url of
FirstOfItsUrl(i) ==
  /\ SecureCand(i)
  /\ \A j \in 1..(i - 1) : ~(SecureCand(j) /\ ExpandedOf(j) = ExpandedOf(i))

DistinctCands == { i \in CandPositions : FirstOfItsUrl(i) }

Executed == pc # "start"

\* the promise at position i is a builder error of kind e
ErrorAt(i, e) ==
  /\ promiseArray[i].fetch = "none"
  /\ promiseArray[i].value.error = e

\* a request was issued for the candidate at position i
DispatchedAt(i) == promiseArray[i].fetch # "none"

AcceptedBefore(i) == Cardinality({ j \in 1..(i - 1) : DispatchedAt(j) })

RequestsTo(url) ==
  Cardinality({ k \in DOMAIN fetchJsonCalls : fetchJsonCalls[k] = url })

OneRecordPerCandidate == Len(promiseArray) = NumCands

-----------------------------------------------------------------------------
(* Claims about the builder, under SpecBuild *)

\* C1: when more than 5 candidates would be accepted (known, secure, pairwise
\* distinct after expansion), exactly 5 requests are issued, to the first 5 of
\* them in input order, and each later one has a MAX_CALLOUTS_EXCEEDED record
\* at its input position.
C1_CapDispatchesFirstFive ==
  (Executed /\ Cardinality(DistinctCands) > MAX_RTC_CALLOUTS) =>
    /\ OneRecordPerCandidate
    /\ Len(fetchJsonCalls) = MAX_RTC_CALLOUTS
    /\ \A i \in DistinctCands :
         LET rank == Cardinality({ j \in DistinctCands : j <= i })
         IN  IF rank <= MAX_RTC_CALLOUTS
             THEN DispatchedAt(i) /\ fetchJsonCalls[rank] = ExpandedOf(i)
             ELSE ErrorAt(i, RTC_ERROR_ENUM.MAX_CALLOUTS_EXCEEDED)

C1_Witness ==
  /\ Executed
  /\ Cardinality(DistinctCands) > MAX_RTC_CALLOUTS
  /\ Len(fetchJsonCalls) = MAX_RTC_CALLOUTS
  /\ \E i \in DistinctCands :
       ~IsUrlCand(i) /\ ErrorAt(i, RTC_ERROR_ENUM.MAX_CALLOUTS_EXCEEDED)

\* candidates i < j expand to the same secure url, i the first that does
SameUrlPair(i, j) ==
  /\ i < j
  /\ FirstOfItsUrl(i)
  /\ SecureCand(j)
  /\ ExpandedOf(j) = ExpandedOf(i)

NoUrlRequestedTwice ==
  \A k, l \in DOMAIN fetchJsonCalls :
     fetchJsonCalls[k] = fetchJsonCalls[l] => k = l

\* C2 as stated: of two candidates that expand to the same secure url the
\* first is requested and the later one gets DUPLICATE_URL; no url is
\* requested twice.
C2_Original ==
  Executed =>
    /\ OneRecordPerCandidate
    /\ NoUrlRequestedTwice
    /\ \A i, j \in CandPositions :
         SameUrlPair(i, j) =>
           /\ DispatchedAt(i)
           /\ RequestsTo(ExpandedOf(i)) = 1
           /\ ErrorAt(j, RTC_ERROR_ENUM.DUPLICATE_URL)

\* C2, amended: of two candidates that expand to the same secure url, the later
\* one processed while fewer than 5 callouts have been accepted, the first is
\* requested (once) and the later one gets DUPLICATE_URL; once 5 callouts have
\* been accepted the later one gets MAX_CALLOUTS_EXCEEDED instead; in every
\* case no url is requested twice.
C2_DuplicateBelowCap ==
  Executed =>
    /\ OneRecordPerCandidate
    /\ NoUrlRequestedTwice
    /\ \A i, j \in CandPositions :
         SameUrlPair(i, j) =>
           IF AcceptedBefore(j) < MAX_RTC_CALLOUTS
           THEN /\ DispatchedAt(i)
                /\ RequestsTo(ExpandedOf(i)) = 1
                /\ ErrorAt(j, RTC_ERROR_ENUM.DUPLICATE_URL)
           ELSE ErrorAt(j, RTC_ERROR_ENUM.MAX_CALLOUTS_EXCEEDED)

C2_Witness ==
  /\ Executed
  /\ \E i, j \in CandPositions :
       /\ SameUrlPair(i, j)
       /\ IsUrlCand(i) /\ ~IsUrlCand(j)
       /\ AcceptedBefore(j) < MAX_RTC_CALLOUTS
       /\ ErrorAt(j, RTC_ERROR_ENUM.DUPLICATE_URL)

\* the candidates after position i are processed as if i were not there
LaterCandsProcessed(i) ==
  \A j \in CandPositions :
     (j > i /\ FirstOfItsUrl(j) /\ AcceptedBefore(j) < MAX_RTC_CALLOUTS)
       => DispatchedAt(j)

\* C3 as stated: every candidate whose expanded url is not secure has an
\* INSECURE_URL record, its url is never requested, and the candidates after
\* it are processed.
C3_Original ==
  Executed =>
    /\ OneRecordPerCandidate
    /\ \A i \in CandPositions :
         InsecureCand(i) =>
           /\ ErrorAt(i, RTC_ERROR_ENUM.INSECURE_URL)
           /\ RequestsTo(ExpandedOf(i)) = 0
           /\ LaterCandsProcessed(i)

\* C3, amended: a candidate whose expanded url is not secure, processed while
\* fewer than 5 callouts have been accepted, has an INSECURE_URL record; once 5
\* callouts have been accepted it has a MAX_CALLOUTS_EXCEEDED record instead; in
\* both cases its url is never requested and the candidates after it are
\* processed.
C3_InsecureBelowCap ==
  Executed =>
    /\ OneRecordPerCandidate
    /\ \A i \in CandPositions :
         InsecureCand(i) =>
           /\ IF AcceptedBefore(i) < MAX_RTC_CALLOUTS
              THEN ErrorAt(i, RTC_ERROR_ENUM.INSECURE_URL)
              ELSE ErrorAt(i, RTC_ERROR_ENUM.MAX_CALLOUTS_EXCEEDED)
           /\ RequestsTo(ExpandedOf(i)) = 0
           /\ LaterCandsProcessed(i)

C3_Witness ==
  /\ Executed
  /\ \E i, j \in CandPositions :
       /\ InsecureCand(i)
       /\ ErrorAt(i, RTC_ERROR_ENUM.INSECURE_URL)
       /\ j > i
       /\ DispatchedAt(j)

UnknownVendorCand(i) == i \in CandPositions /\ ~KnownCand(i)

-----------------------------------------------------------------------------
(* Claims about the dispatcher and the result, under Spec and FairSpec *)

BuilderErrors ==
  { RTC_ERROR_ENUM.UNKNOWN_VENDOR, RTC_ERROR_ENUM.INSECURE_URL,
    RTC_ERROR_ENUM.DUPLICATE_URL, RTC_ERROR_ENUM.MAX_CALLOUTS_EXCEEDED }

HasError(r) == "error" \in DOMAIN r
IsBuilderError(r) == HasError(r) /\ r.error \in BuilderErrors
IsNetworkFailure(r) == HasError(r) /\ r.error = RTC_ERROR_ENUM.NETWORK_FAILURE

\* the record r names candidate i: its url (as listed or expanded) or its
\* vendor name (as listed or lowercased)
RecordBelongsTo(r, i) ==
  IF IsUrlCand(i)
  THEN r.callout \in { rtcConfig.urls[i], ExpandedOf(i) }
  ELSE r.callout \in { <<VendorAt(i).name>>, <<ToLowerCase(VendorAt(i).name)>> }

\* candidate i is one of the first 5 distinct secure candidates
ShouldDispatch(i) ==
  /\ FirstOfItsUrl(i)
  /\ Cardinality({ j \in DistinctCands : j <= i }) <= MAX_RTC_CALLOUTS

\* C6: the resolved list is in input order (urls in array order, then the
\* vendor entries in the mapping's order), the builder errors at the positions
\* of their candidates, whatever the order in which the requests complete,
\* fail or time out.
C6_ResultInInputOrder ==
  pc = "resolved" =>
    /\ DOMAIN result = CandPositions
    /\ \A i \in CandPositions :
         /\ RecordBelongsTo(result[i], i)
         /\ IsBuilderError(result[i]) <=> ~ShouldDispatch(i)

\* two callouts, the later one decided first
C6_Witness ==
  /\ pc = "resolved"
  /\ \E i, j \in CandPositions :
       /\ i < j
       /\ ShouldDispatch(i) /\ ShouldDispatch(j)
       /\ result[i].rtcTime > result[j].rtcTime
       /\ result[i].callout # result[j].callout

\* C7: the resolved list holds exactly one record per configured candidate
\* (as many records as urls and vendor entries), each candidate's own: none is
\* dropped, none reported twice.
C7_OneRecordPerCandidate ==
  /\ Executed => Len(promiseArray) = NumCands
  /\ pc = "resolved" =>
       /\ Len(result) = Len(rtcConfig.urls) + Len(rtcConfig.vendors)
       /\ \A i \in CandPositions : RecordBelongsTo(result[i], i)

\* a builder error and a malformed body in one result
C7_Witness ==
  /\ pc = "resolved"
  /\ \E i, j \in CandPositions :
       /\ IsBuilderError(result[i])
       /\ HasError(result[j])
       /\ result[j].error = RTC_ERROR_ENUM.MALFORMED_JSON_RESPONSE

\* the fetch chain of callout i failed or its timeout fired
CalloutFailed(i) ==
  \/ promiseArray[i].fetch = "rejected"
  \/ promiseArray[i].text = "rejected"
  \/ promiseArray[i].timer = "fired"

\* C8: the returned promise never rejects, whatever the outcomes of the
\* callouts (fetch resolves or rejects, body read rejects, body malformed,
\* timeout fires): no promise of promiseArray rejects, and in the resolved list
\* each failure is an error-tagged record.
C8_NeverRejects ==
  /\ pc # "rejected"
  /\ \A i \in DOMAIN promiseArray : promiseArray[i].state # "rejected"
  /\ pc = "resolved" =>
       \A i \in Callouts : CalloutFailed(i) => IsNetworkFailure(result[i])

\* one callout whose fetch rejected and one whose timeout fired
C8_Witness ==
  /\ pc = "resolved"
  /\ \E i, j \in Callouts :
       /\ promiseArray[i].fetch = "rejected" /\ promiseArray[i].timer # "fired"
       /\ promiseArray[j].timer = "fired"

\* the network call of callout i (fetchJson and the read of the body) was
\* still unsettled when timeoutMillis had passed: the callout was decided
\* later than its deadline
UnsettledAtDeadline(i) ==
  /\ promiseArray[i].state # "pending"
  /\ rtcStartTime + promiseArray[i].value.rtcTime > promiseArray[i].deadline

TimedOutRecord(r) ==
  /\ IsNetworkFailure(r)
  /\ r.rtcTime >= rtcConfig.timeoutMillis

\* C9 as stated: a callout whose network call has not settled when
\* timeoutMillis has passed ends as NETWORK_FAILURE with rtcTime >= timeoutMillis.
C9_Original ==
  \A i \in Callouts :
     UnsettledAtDeadline(i) => TimedOutRecord(promiseArray[i].value)

\* C9, amended: a callout whose timeout timer fires before its fetch chain
\* (fetch, body read, parse) has completed ends as NETWORK_FAILURE with
\* rtcTime >= timeoutMillis; a chain that completes after timeoutMillis has
\* passed but before the timer has fired decides the record itself.
C9_TimeoutFired ==
  \A i \in Callouts :
     promiseArray[i].timer = "fired" =>
       /\ promiseArray[i].state = "fulfilled"
       /\ TimedOutRecord(promiseArray[i].value)

\* the timer fired while fetchJson was still pending
C9_Witness ==
  \E i \in Callouts :
     /\ promiseArray[i].timer = "fired"
     /\ promiseArray[i].fetch = "pending"
     /\ promiseArray[i].value.rtcTime >= rtcConfig.timeoutMillis

AllDecided == \A i \in DOMAIN promiseArray : promiseArray[i].state # "pending"

\* C10: with timers that fire, the returned promise eventually resolves, also
\* when network requests never settle, and it resolves only once the outcome
\* of every dispatched callout is decided.
C10_EventuallyResolves ==
  /\ (pc = "pending") ~> (pc = "resolved")
  /\ [](pc = "resolved" => AllDecided)

\* resolved while a request is still unanswered
C10_Witness ==
  /\ pc = "resolved"
  /\ \E i \in Callouts : promiseArray[i].fetch = "pending"

-----------------------------------------------------------------------------
(* Claims about the validator, under SpecValidate *)

\* the value the attribute holds, where it holds one
Given == element.value
GivenTimeout == Get(Given, "timeoutMillis")

\* validation let the config through
Validated == pc \notin {"start", "returned"}

\* C11: on a config that passes shape validation, the returned timeoutMillis
\* is the integer parsed from the input when that is above 0 and below 1000,
\* and the default 1000 in every other case; it lies in 1..1000.
C11_TimeoutResolution ==
  Validated =>
    /\ rtcConfig.timeoutMillis =
         IF /\ ~ParseInt(GivenTimeout).nan
            /\ ParseInt(GivenTimeout).num > 0
            /\ ParseInt(GivenTimeout).num < 1000
         THEN ParseInt(GivenTimeout).num
         ELSE 1000
    /\ rtcConfig.timeoutMillis \in 1..1000

\* a negative timeoutMillis replaced by the default
C11_Witness ==
  /\ Validated
  /\ GivenTimeout = JsNumber(-1)
  /\ rtcConfig.timeoutMillis = 1000

TimeoutWarnings ==
  { "Invalid RTC timeout: undefinedms, using default timeout 1000ms",
    "Invalid RTC timeout is NaN, using default timeout 1000ms" }

\* timeoutMillis is in the config but parses to no number, to a negative
\* number, or to one at or above the default
TimeoutUnusable ==
  /\ GivenTimeout # Undefined
  /\ \/ ParseInt(GivenTimeout).nan
     \/ ParseInt(GivenTimeout).num < 0
     \/ ParseInt(GivenTimeout).num >= defaultTimeoutMillis

\* C12 as stated: an invalid-timeout warning is emitted when timeoutMillis is
\* present but unusable, and no timeout warning when timeoutMillis is absent.
C12_Original ==
  Validated =>
    /\ TimeoutUnusable => warnings \cap TimeoutWarnings # {}
    /\ GivenTimeout = Undefined => warnings \cap TimeoutWarnings = {}

\* one of the failures the claim lists: no attribute, not JSON, neither
\* vendors nor urls, vendors in the config but no keyed object, urls in the
\* config but no array, no entry in vendors and urls together
RejectedAsStated ==
  \/ ~element.present
  \/ ~element.complete
  \/ Get(Given, "vendors") = Undefined /\ Get(Given, "urls") = Undefined
  \/ Get(Given, "vendors") # Undefined /\ ~IsObject(Get(Given, "vendors"))
  \/ Get(Given, "urls") # Undefined /\ ~IsArray(Get(Given, "urls"))
  \/ /\ IsObject(Get(Given, "vendors")) => Get(Given, "vendors").entries = <<>>
     /\ IsArray(Get(Given, "urls")) => Get(Given, "urls").items = <<>>

\* the same with a falsy vendors or urls (null, "") counted as not given
Rejected ==
  \/ ~element.present
  \/ ~element.complete
  \/ ~Truthy(Get(Given, "vendors")) /\ ~Truthy(Get(Given, "urls"))
  \/ Truthy(Get(Given, "vendors")) /\ ~IsObject(Get(Given, "vendors"))
  \/ Truthy(Get(Given, "urls")) /\ ~IsArray(Get(Given, "urls"))
  \/ /\ IsObject(Get(Given, "vendors")) => Get(Given, "vendors").entries = <<>>
     /\ IsArray(Get(Given, "urls")) => Get(Given, "urls").items = <<>>

ReturnedNull == pc = "returned" /\ rtcConfig = Null

\* C13 as stated: validateRtcConfig_ returns null in each of the listed cases.
C13_Original == (pc # "start" /\ RejectedAsStated) => ReturnedNull

\* C13, amended: validateRtcConfig_ returns null and does not throw when the
\* attribute is absent or no valid JSON, when neither vendors nor urls has a
\* truthy value, when vendors has a truthy value that is no keyed object, when
\* urls has a truthy value that is no array, or when vendors and urls
\* together have no entry.
C13_ReturnsNull == (pc # "start" /\ Rejected) => ReturnedNull

\* vendors and urls both given and both of the wrong type
C13_Witness ==
  /\ ReturnedNull
  /\ Get(Given, "vendors") = JsString("incorrect")
  /\ Get(Given, "urls") = JsString("incorrect")

\* C14: when the validator rejects the config, maybeExecuteRealTimeConfig_
\* returns at once with no promise: no request is issued, no record produced.
C14_RejectedConfigDoesNothing ==
  (pc # "start" /\ validateRtcConfig_(element).value = Null) =>
    /\ pc = "returned"
    /\ fetchJsonCalls = <<>>
    /\ promiseArray = <<>>
    /\ result = <<>>

\* a config with urls and vendors that are both empty
C14_Witness ==
  /\ pc = "returned"
  /\ element.present /\ element.complete
  /\ IsArray(Get(Given, "urls")) /\ IsObject(Get(Given, "vendors"))
  /\ fetchJsonCalls = <<>>

-----------------------------------------------------------------------------
(* Claims about the records, under Spec *)

\* the callouts whose record was made from the body of the response
DecidedByBody == { i \in Callouts : promiseArray[i].body # "none" }

RecordOf(i) == promiseArray[i].value

HasResponse(r) == "rtcResponse" \in DOMAIN r

\* C15 as stated: a non-empty body that is valid JSON (the values null, false,
\* 0 and "" included) yields a record with rtcResponse the parsed value and no
\* error; a non-empty body that is not valid JSON yields MALFORMED_JSON_RESPONSE.
C15_Original ==
  \A i \in DecidedByBody :
     promiseArray[i].body # "" =>
       IF JsonParse(promiseArray[i].body).ok
       THEN /\ HasResponse(RecordOf(i))
            /\ RecordOf(i).rtcResponse = JsonParse(promiseArray[i].body).value
            /\ ~HasError(RecordOf(i))
       ELSE /\ HasError(RecordOf(i))
            /\ RecordOf(i).error = RTC_ERROR_ENUM.MALFORMED_JSON_RESPONSE

\* C16: the body "{}" yields a record with the empty object as rtcResponse and
\* no error; the empty body yields a record with neither rtcResponse nor error.
C16_EmptyObjectAndEmptyBody ==
  \A i \in DecidedByBody :
     /\ promiseArray[i].body = "{}" =>
          /\ HasResponse(RecordOf(i))
          /\ RecordOf(i).rtcResponse = [type |-> "object", keys |-> {}]
          /\ ~HasError(RecordOf(i))
     /\ promiseArray[i].body = "" =>
          /\ promiseArray[i].state = "fulfilled"
          /\ ~HasResponse(RecordOf(i))
          /\ ~HasError(RecordOf(i))

\* a result with a record of each of the two bodies
C16_Witness ==
  /\ pc = "resolved"
  /\ \E i, j \in DecidedByBody :
       /\ promiseArray[i].body = "{}" /\ HasResponse(result[i])
       /\ promiseArray[j].body = "" /\ ~HasResponse(result[j])

\* a record with callout and integer rtcTime and not both rtcResponse and error
WellFormedRecord(r) ==
  /\ "callout" \in DOMAIN r
  /\ "rtcTime" \in DOMAIN r
  /\ r.rtcTime \in Nat
  /\ ~(HasResponse(r) /\ HasError(r))

\* C17: every record has a callout and an integer rtcTime and never both
\* rtcResponse and error; it has neither only when the callout succeeded with
\* an empty body.
C17_RecordShape ==
  /\ \A i \in DOMAIN promiseArray :
       promiseArray[i].state = "fulfilled" =>
         /\ WellFormedRecord(RecordOf(i))
         /\ (~HasResponse(RecordOf(i)) /\ ~HasError(RecordOf(i))) =>
              promiseArray[i].body = ""
  /\ \A i \in DOMAIN result : WellFormedRecord(result[i])

\* a builder error next to the record of an empty body
C17_Witness ==
  /\ pc = "resolved"
  /\ \E i, j \in DOMAIN result :
       /\ IsBuilderError(result[i])
       /\ ~HasResponse(result[j]) /\ ~HasError(result[j])

-----------------------------------------------------------------------------
(* Claims about vendor entries, under SpecBuild *)

VendorPositions == { i \in CandPositions : ~IsUrlCand(i) }

\* the template with each token replaced by the ad-network value where the
\* ad network defines it, else by the publisher's value where the entry
\* defines it, and left alone where neither does
Substituted(template, declared, network) ==
  [k \in DOMAIN template |->
     IF template[k] \in DOMAIN network THEN network[template[k]]
     ELSE IF template[k] \in DOMAIN declared THEN declared[template[k]]
     ELSE template[k]]

\* C18: the url requested for a vendor entry is the vendor's template with a
\* key that both the entry and the ad network define replaced by the
\* ad-network value, a key only one of them defines by that value, and nothing
\* else replaced (the allow-list is the key set of the merged macros).
C18_NetworkMacrosWin ==
  Executed =>
    \A i \in VendorPositions :
       DispatchedAt(i) =>
         promiseArray[i].url =
           Substituted(RTC_VENDORS.fakevendor, VendorAt(i).macros, customMacros)

\* PAGE_ID defined by both, SLOT_ID by the entry, FOO_ID by the ad network
C18_Witness ==
  /\ Executed
  /\ \E i \in VendorPositions :
       /\ DispatchedAt(i)
       /\ VendorAt(i).macros = [SLOT_ID |-> "1", PAGE_ID |-> "2"]
       /\ customMacros = [PAGE_ID |-> "3", FOO_ID |-> "4"]
       /\ promiseArray[i].url = <<"https", "www.fake.qqq", "1", "3", "4">>

\* the callout of the record at position i
CalloutAt(i) ==
  IF DispatchedAt(i) THEN promiseArray[i].callout
  ELSE promiseArray[i].value.callout

\* C19 as stated: every record of a vendor entry, the UNKNOWN_VENDOR record
\* included, carries the lowercased vendor name as its callout.
C19_Original ==
  Executed =>
    \A i \in VendorPositions : CalloutAt(i) = <<ToLowerCase(VendorAt(i).name)>>

\* C20: a config whose only candidate is one vendor entry named fakevendor
\* in any letter case issues exactly one request, to the template of
\* fakevendor expanded with the merged macros.
C20_CaseInsensitiveLookup ==
  (/\ Executed
   /\ NumUrls = 0
   /\ Len(rtcConfig.vendors) = 1
   /\ rtcConfig.vendors[1].name \in {"fakevendor", "FakeVendor"}) =>
    fetchJsonCalls =
      << Substituted(RTC_VENDORS.fakevendor, rtcConfig.vendors[1].macros,
                     customMacros) >>

\* the single entry FakeVendor, requested at the expanded template
C20_Witness ==
  /\ Executed
  /\ NumUrls = 0
  /\ Len(rtcConfig.vendors) = 1
  /\ rtcConfig.vendors[1].name = "FakeVendor"
  /\ rtcConfig.vendors[1].macros = [SLOT_ID |-> "1", PAGE_ID |-> "2"]
  /\ customMacros = <<>>
  /\ fetchJsonCalls = << <<"https", "www.fake.qqq", "1", "2", "FOO_ID">> >>

-----------------------------------------------------------------------------
(* Claims about the builder's errors and the cap, under SpecBuild *)

\* the urls of the dispatched callouts, in the order of their promises
DispatchedUrls ==
  LET sent == SelectSeq(promiseArray, LAMBDA p : p.fetch # "none")
  IN  [k \in DOMAIN sent |-> sent[k].url]

\* C21: every record the builder emits itself (UNKNOWN_VENDOR, INSECURE_URL,
\* DUPLICATE_URL, MAX_CALLOUTS_EXCEEDED) is an already settled record with
\* rtcTime 0, and no request is issued for its candidate: the requests issued
\* are exactly those of the dispatched callouts.
C21_BuilderErrorsAtTimeZero ==
  Executed =>
    /\ \A i \in DOMAIN promiseArray :
         ~DispatchedAt(i) =>
           /\ promiseArray[i].state = "fulfilled"
           /\ IsBuilderError(RecordOf(i))
           /\ "rtcTime" \in DOMAIN RecordOf(i)
           /\ RecordOf(i).rtcTime = 0
    /\ fetchJsonCalls = DispatchedUrls

\* three of the four errors next to a dispatched callout
C21_Witness ==
  /\ Executed
  /\ fetchJsonCalls # <<>>
  /\ \A e \in BuilderErrors \ {RTC_ERROR_ENUM.MAX_CALLOUTS_EXCEEDED} :
       \E i \in DOMAIN promiseArray :
          /\ ErrorAt(i, e)
          /\ RecordOf(i).rtcTime = 0

\* the candidates that are not the first secure one of their url
RejectedCands == CandPositions \ DistinctCands

\* C22: duplicates, insecure urls and unknown vendors take no slot of the
\* cap: the seen-set holds exactly the urls of the dispatched callouts, and
\* when at most 5 candidates are secure and pairwise distinct, each of them
\* is dispatched, wherever the other candidates stand among them.
C22_RejectedTakeNoSlot ==
  Executed =>
    /\ Cardinality(seenUrls) = Len(fetchJsonCalls)
    /\ seenUrls = { fetchJsonCalls[k] : k \in DOMAIN fetchJsonCalls }
    /\ Cardinality(DistinctCands) <= MAX_RTC_CALLOUTS =>
         \A i \in DistinctCands : DispatchedAt(i)

\* five distinct secure candidates, the last one after a duplicate
C22_Witness ==
  /\ Executed
  /\ Cardinality(DistinctCands) = MAX_RTC_CALLOUTS
  /\ Len(fetchJsonCalls) = MAX_RTC_CALLOUTS
  /\ \E i \in RejectedCands :
       /\ ErrorAt(i, RTC_ERROR_ENUM.DUPLICATE_URL)
       /\ \E k \in DistinctCands : k > i /\ DispatchedAt(k)

-----------------------------------------------------------------------------
(* Claims about the seen-set, under SpecUnanswered *)

SeenIsRequested ==
  /\ seenUrls = { fetchJsonCalls[k] : k \in DOMAIN fetchJsonCalls }
  /\ NoUrlRequestedTwice
  /\ Cardinality(seenUrls) <= MAX_RTC_CALLOUTS

\* what was rejected as insecure or unknown is not in the seen-set
RejectedNotSeen ==
  /\ \A i \in CandPositions : InsecureCand(i) => ExpandedOf(i) \notin seenUrls
  /\ \A i \in CandPositions :
       UnknownVendorCand(i) =>
         {<<VendorAt(i).name>>, <<ToLowerCase(VendorAt(i).name)>>} \cap seenUrls = {}

\* candidates i < j that expand to the same insecure url
SameInsecureUrl(i, j) ==
  /\ i < j
  /\ InsecureCand(i) /\ InsecureCand(j)
  /\ ExpandedOf(i) = ExpandedOf(j)

-----------------------------------------------------------------------------
(* Claims about the race of a callout's fetch chain and its timeout, under Spec *)

Decided(i) == promiseArray[i].state # "pending"

\* the fetch chain of callout i has run to its end
ChainCompleted(i) ==
  \/ promiseArray[i].fetch = "rejected"
  \/ promiseArray[i].text \in {"resolved", "rejected"}

\* the record of callout i is the one its timeout made
DecidedByTimeout(i) ==
  /\ promiseArray[i].state = "fulfilled"
  /\ IsNetworkFailure(RecordOf(i))
  /\ RecordOf(i).rtcTime >= rtcConfig.timeoutMillis

\* the record of callout i is the one the callback of its body made
DecidedByChain(i) ==
  /\ promiseArray[i].state = "fulfilled"
  /\ RecordOf(i) = TextCallback(promiseArray[i].body, RecordOf(i).rtcTime,
                                promiseArray[i].callout).value

\* a decided record stays as it is, and no record is added
RecordsKept ==
  /\ pc # "start" => Len(promiseArray') = Len(promiseArray)
  /\ \A i \in DOMAIN promiseArray :
       Decided(i) =>
         /\ promiseArray'[i].state = promiseArray[i].state
         /\ promiseArray'[i].value = promiseArray[i].value

\* C24: the first of a callout's fetch chain and its timeout to settle
\* decides its record: when the timeout fires first the record is
\* NETWORK_FAILURE, when the body is read first it is the record made from the
\* body, and whatever happens afterwards (the fetch completing or failing,
\* the deadline passing) neither changes the record nor adds one.
C24_FirstToSettleDecides ==
  /\ [](\A i \in Callouts :
          /\ promiseArray[i].timer = "fired" => DecidedByTimeout(i)
          /\ i \in DecidedByBody => DecidedByChain(i))
  /\ [][RecordsKept]_vars

\* one callout timed out and its body arrived afterwards; the other was
\* decided by its body and its deadline has passed since
C24_Witness ==
  \E i, j \in Callouts :
     /\ promiseArray[i].timer = "fired"
     /\ promiseArray[i].text = "resolved"
     /\ IsNetworkFailure(RecordOf(i))
     /\ j \in DecidedByBody
     /\ HasResponse(RecordOf(j))
     /\ now > promiseArray[j].deadline

-----------------------------------------------------------------------------
(* Claims about the independence of the callouts, under Spec *)

\* the record that the events of callout i alone give it, at the time it
\* was decided: the record of its body, or NETWORK_FAILURE
OwnRecord(i) ==
  IF promiseArray[i].body # "none"
  THEN TextCallback(promiseArray[i].body, RecordOf(i).rtcTime,
                    promiseArray[i].callout).value
  ELSE [error   |-> RTC_ERROR_ENUM.NETWORK_FAILURE,
        callout |-> promiseArray[i].callout,
        rtcTime |-> RecordOf(i).rtcTime]

\* a step of one callout leaves every other promise as it is
OneCalloutPerStep ==
  pc # "start" =>
    \A i, j \in DOMAIN promiseArray :
       (i # j /\ promiseArray'[i] # promiseArray[i])
         => promiseArray'[j] = promiseArray[j]

\* C25: the record of a dispatched callout follows from its own fetch
\* outcome and timer alone (the record of its body, or NETWORK_FAILURE when its
\* chain failed or its timeout fired first); an event of one callout leaves
\* the promise of every other as it is, and in the result each record stands
\* at the position of its own candidate.
C25_CalloutsIndependent ==
  /\ [](\A i \in Callouts :
          Decided(i) =>
            /\ promiseArray[i].state = "fulfilled"
            /\ RecordOf(i) = OwnRecord(i)
            /\ promiseArray[i].body = "none" => CalloutFailed(i))
  /\ [](pc = "resolved" =>
          \A i \in DOMAIN promiseArray : result[i] = RecordOf(i))
  /\ [][OneCalloutPerStep]_vars

\* a callout answered after the other one had failed
C25_Witness ==
  /\ pc = "resolved"
  /\ \E i, j \in Callouts :
       /\ i # j
       /\ promiseArray[i].fetch = "rejected"
       /\ IsNetworkFailure(result[i])
       /\ HasResponse(result[j])
       /\ result[j].rtcTime > result[i].rtcTime

-----------------------------------------------------------------------------
(* Claims about the builder pass among the asynchronous events, under Spec *)

\* the number of callouts accepted so far
AcceptedCount == Cardinality({ i \in DOMAIN promiseArray : DispatchedAt(i) })

\* no outcome of the promise p has been processed
Untouched(p) ==
  \/ p.fetch = "none" /\ p.timer = "none"
  \/ p.fetch = "pending" /\ p.timer = "armed" /\ p.state = "pending"

\* the step that runs the builder classifies every candidate and issues
\* every request, and processes no outcome
PassIsWhole ==
  (pc = "start" /\ pc' = "pending") =>
    /\ Len(promiseArray') = NumCands'
    /\ \A i \in DOMAIN promiseArray' : Untouched(promiseArray'[i])
    /\ fetchJsonCalls' = DispatchedUrls'
    /\ Cardinality(seenUrls') = AcceptedCount'

\* after the pass the seen-set, the requests and the accepted count stay
FrozenAfterPass ==
  pc # "start" =>
    /\ seenUrls' = seenUrls
    /\ fetchJsonCalls' = fetchJsonCalls
    /\ AcceptedCount' = AcceptedCount
    /\ rtcConfig' = rtcConfig

\* C26: before the pass nothing is classified, requested or processed; the
\* pass is one step that classifies every candidate and issues every request
\* while no outcome or timeout is processed; from then on the seen-set, the
\* requests issued and the number of accepted callouts never change.
C26_BuilderPassIsAtomic ==
  /\ [](pc = "start" =>
          promiseArray = <<>> /\ seenUrls = {} /\ fetchJsonCalls = <<>>)
  /\ [][PassIsWhole]_vars
  /\ [][FrozenAfterPass]_vars

\* both callouts decided, by different events, with the seen-set of the pass
C26_Witness ==
  /\ pc = "resolved"
  /\ Cardinality(seenUrls) = MaxAsyncCandidates
  /\ AcceptedCount = MaxAsyncCandidates
  /\ \E i, j \in Callouts :
       /\ promiseArray[i].timer = "fired"
       /\ promiseArray[j].text = "resolved"

-----------------------------------------------------------------------------
(* Claims about what the validator returns, under SpecValidate *)

\* a config with at least one url or vendor entry whose timeoutMillis is a
\* number strictly between 0 and 1000
SmallTimeoutConfig ==
  /\ ~Rejected
  /\ GivenTimeout # Undefined
  /\ GivenTimeout.type = "number"
  /\ GivenTimeout.num > 0 \/ "half" \in DOMAIN GivenTimeout
  /\ GivenTimeout.num < defaultTimeoutMillis

Returned == validateRtcConfig_(element).value

IntegerTimeout == "half" \notin DOMAIN GivenTimeout

-----------------------------------------------------------------------------
(* amp-ad-exit: the message listener, exit and the tracking pings *)

\* the event carries an IFRAME_TRANSPORT_RESPONSE of this creative with a
\* message and a vendor whose origin is the sender's
ValidResponseEvent(event) ==
  /\ event.amp
  /\ Has(event.json, "type") /\ event.json.type = IFRAME_TRANSPORT_RESPONSE
  /\ Has(event.json, "creativeId") /\ event.json.creativeId = AmpAdResourceId
  /\ Has(event.json, "message")
  /\ Has(event.json, "vendor")
  /\ OriginMatchesVendor(event.origin, event.json.vendor)

\* C28 (as stated): a message the listener receives changes vendorResponses_
\* only if it is an IFRAME_TRANSPORT_RESPONSE whose creativeId is the resource
\* id of the enclosing amp-ad and which carries a message and a vendor that
\* matches the sender's origin; any other message leaves vendorResponses_
\* unchanged.
C28_Original ==
  [][ampAdExit'.vendorResponses_ # ampAdExit.vendorResponses_
       => /\ invocation'.op = "message"
          /\ ValidResponseEvent(invocation'.event)]_vars

\* the last call was exit, and the target it named
ExitCalled == invocation.op = "exit"
TargetNamed == invocation.args.target
TargetExists == TargetNamed \in DOMAIN ampAdExit.targets_

\* the click passes every default filter and every filter of the target
EveryFilterPasses ==
  /\ \A k \in DOMAIN ampAdExit.defaultFilters_ :
       ampAdExit.defaultFilters_[k] \in invocation.event.passes
  /\ \A k \in DOMAIN ampAdExit.targets_[TargetNamed].filters :
       ampAdExit.targets_[TargetNamed].filters[k] \in invocation.event.passes

\* the positions of the effects of one kind in what the call did
EffectsOfKind(kind) ==
  { k \in DOMAIN invocation.effects : invocation.effects[k].kind = kind }

PingsMade == { invocation.effects[k] : k \in EffectsOfKind("ping") }

TransportsAsConfigured ==
  (invocation.op = "buildCallback" /\ invocation.input.kind = "config") =>
    \A mode \in {"beacon", "image"} :
      ampAdExit.transport_[mode] =
        (~Has(invocation.input.config.transport, mode)
           \/ invocation.input.config.transport[mode])

====
